---- MODULE Spec2Model ----
(***************************************************************************)
(* Model of the Ollama provider adapter (src/src/ollama.ts): the request   *)
(* formatter OllamaModel._formatRequest, the configuration accessors, and  *)
(* the async generator OllamaModel.stream, which translates the chunks of  *)
(* the Ollama chat stream into Strands model stream events.                *)
(*                                                                         *)
(* Conventions.                                                            *)
(*  - A JavaScript property whose value is undefined is modelled as a key  *)
(*    that is absent from the record (the two are indistinguishable once   *)
(*    the request is serialised); an optional scalar of a chunk is the     *)
(*    empty sequence when undefined and <<v>> when it has the value v.     *)
(*  - A JavaScript object is a TLA+ record (a function on its keys); the   *)
(*    empty object and the empty array are both <<>>.                      *)
(***************************************************************************)
EXTENDS Integers, Sequences, FiniteSets, TLC

VARIABLES
    config,         \* OllamaModel._config, the current configuration object
    pc,             \* per invocation: where the generator body stands
    pending,        \* per invocation: a next() of the caller is being served
    pulls,          \* per invocation: number of next() calls made so far
    args,           \* per invocation: the (messages, options) bound by stream()
    request,        \* per invocation: <<>> or <<the formatted wire request>>
    clientHost,     \* per invocation: <<>> or <<host option given to new Ollama>>
    chatCalls,      \* per invocation: number of client.chat calls issued
    chatAtPull,     \* per invocation: <<>> or <<number of the pull that issued chat>>
    chunks,         \* per invocation: chunks delivered by the transport so far
    tcIdx,          \* per invocation: index of the tool call being translated
    toolRequested,  \* per invocation: the local flag of stream()
    events,         \* per invocation: events yielded to the caller so far
    origin,         \* per invocation: for each event, the number of chunks
                    \* delivered when it was yielded (0: before any chunk)
    raised,         \* per invocation: <<>> or <<error the transport raised>>
    thrown,         \* per invocation: <<>> or <<error the pending pull failed with>>
    errorLog,       \* calls of logger.error, in order
    fmtInput,       \* formatter harness: the (messages, options) under test
    fmtOutput,      \* formatter harness: <<>> or <<result of _formatRequest>>
    heap,           \* every configuration object created so far, in order of
                    \* creation; the last one is the object _config refers to
    updates,        \* the arguments of the updateConfig calls made so far
    got,            \* <<>> or <<the last result of getConfig, and the number
                    \* of updateConfig calls made before it>>
    seen            \* per invocation: the number of the configuration object
                    \* current when stream() was called and when the body
                    \* read the configuration (0: not yet)

vars == <<config, pc, pending, pulls, args, request, clientHost, chatCalls,
          chatAtPull, chunks, tcIdx, toolRequested, events, origin, raised,
          thrown, errorLog, fmtInput, fmtOutput, heap, updates, got, seen>>

streamVars == <<pc, pending, pulls, args, request, clientHost, chatCalls,
                chatAtPull, chunks, tcIdx, toolRequested, events, origin,
                raised, thrown, errorLog>>

(***************************************************************************)
(* Bounds of the model.                                                    *)
(***************************************************************************)
MaxChunks == 2      \* chunks the transport delivers to one invocation
MaxBlocks == 2      \* blocks of a system prompt given as a block sequence
MaxMessages == 2    \* messages of a conversation handed to the formatter
MaxUpdates == 2     \* calls of updateConfig on one adapter

(***************************************************************************)
(* JavaScript helpers.                                                     *)
(***************************************************************************)
\* The value undefined.  A property that holds undefined reads like an
\* absent one, and the objects the model builds leave such a key out; an own
\* key that holds undefined is written k |-> Undefined, and only in what a
\* caller hands in: a patch of updateConfig, an options or params bag, a
\* JSON value.
Undefined == [undefined |-> TRUE]

\* v === undefined.  Equality is not defined between values of different
\* kinds, so the printed forms are compared.
IsUndefined(v) == ToString(v) = ToString(Undefined)

\* { ...a, ...b }: shallow merge; every own key of b wins, also one that
\* holds undefined, which leaves the property undefined in the result.
Spread(a, b) ==
    LET merged == [k \in (DOMAIN a) \cup (DOMAIN b) |->
                      IF k \in DOMAIN b THEN b[k] ELSE a[k]]
    IN  [k \in {j \in DOMAIN merged : ~IsUndefined(merged[j])} |-> merged[k]]

\* cfg.k when it is defined, as a one-key object; nothing when it is undefined.
Field(name, obj, k) ==
    IF k \in DOMAIN obj /\ ~IsUndefined(obj[k])
    THEN [x \in {name} |-> obj[k]]
    ELSE <<>>

(***************************************************************************)
(* JSON.stringify.  A JSON value is [num |-> n] (an integer), [str |-> s], *)
(* [bool |-> b], [null |-> TRUE], [arr |-> values], [obj |-> members] or   *)
(* Undefined; the members of an object are a sequence of <<key, value>>    *)
(* with distinct keys, in insertion order.  Of the control characters only *)
(* those a TLA+ string can hold are escaped here.                          *)
(***************************************************************************)
Char(s, k) == SubSeq(s, k, k)

Digits == << "0", "1", "2", "3", "4", "5", "6", "7", "8", "9" >>

DigitChars == { Digits[d] : d \in DOMAIN Digits }

IsDigit(ch) == ch \in DigitChars

DigitOf(ch) == CHOOSE d \in DOMAIN Digits : Digits[d] = ch

\* s < t as numbers, for digit strings of the same length, from position k on.
RECURSIVE DigitsLess(_, _, _)
DigitsLess(s, t, k) ==
    IF k > Len(s) THEN FALSE
    ELSE IF Char(s, k) = Char(t, k) THEN DigitsLess(s, t, k + 1)
    ELSE DigitOf(Char(s, k)) < DigitOf(Char(t, k))

\* s < t as numbers, for digit strings without a leading zero.
IndexLess(s, t) == Len(s) < Len(t) \/ (Len(s) = Len(t) /\ DigitsLess(s, t, 1))

\* The largest array index, 2^32 - 2.
MaxArrayIndex == "4294967294"

\* The key is an array index: the canonical text of an integer in 0..2^32-2.
IsArrayIndex(s) ==
    /\ Len(s) >= 1
    /\ \A k \in 1..Len(s) : IsDigit(Char(s, k))
    /\ Len(s) = 1 \/ Char(s, 1) # "0"
    /\ ~IndexLess(MaxArrayIndex, s)

\* The characters QuoteJSONString escapes.
Escaped == { "\"", "\\", "\n", "\r", "\t", "\f" }

\* QuoteJSONString: the escape of one character.
EscapeChar(ch) ==
    CASE ch = "\"" -> "\\\""
      [] ch = "\\" -> "\\\\"
      [] ch = "\n" -> "\\n"
      [] ch = "\r" -> "\\r"
      [] ch = "\t" -> "\\t"
      [] ch = "\f" -> "\\f"
      [] OTHER -> ch

RECURSIVE EscapeFrom(_, _)
EscapeFrom(s, k) ==
    IF k > Len(s) THEN "" ELSE EscapeChar(Char(s, k)) \o EscapeFrom(s, k + 1)

\* QuoteJSONString: a string with no character to escape is copied as it is.
Quote(s) ==
    IF \A k \in 1..Len(s) : Char(s, k) \notin Escaped
    THEN "\"" \o s \o "\""
    ELSE "\"" \o EscapeFrom(s, 1) \o "\""

\* Members with an array-index key, in ascending order of the index.
RECURSIVE SortByIndex(_)
SortByIndex(ms) ==
    IF ms = <<>> THEN <<>>
    ELSE LET j == CHOOSE j \in 1..Len(ms) :
                      \A l \in 1..Len(ms) : l = j \/ IndexLess(ms[j][1], ms[l][1])
         IN  << ms[j] >> \o SortByIndex([k \in 1..(Len(ms) - 1) |->
                                            IF k < j THEN ms[k] ELSE ms[k + 1]])

\* The members JSON.stringify writes, in the order of the own keys of the
\* object: array indices ascending, then the other keys in insertion order;
\* a member that holds undefined is left out.
OwnMembers(obj) ==
    LET defined == SelectSeq(obj, LAMBDA m : "undefined" \notin DOMAIN m[2])
        indices == { k \in 1..Len(defined) : IsArrayIndex(defined[k][1]) }
    IN  IF indices = {} THEN defined
        ELSE SortByIndex(SelectSeq(defined, LAMBDA m : IsArrayIndex(m[1])))
                \o SelectSeq(defined, LAMBDA m : ~IsArrayIndex(m[1]))

RECURSIVE StringifyValue(_)
RECURSIVE JoinMembers(_)
RECURSIVE JoinElements(_)

StringifyMembers(obj) == JoinMembers(OwnMembers(obj))

\* JSON.stringify of an object.
Stringify(obj) == "{" \o StringifyMembers(obj) \o "}"

\* JSON.stringify of a value inside an object or an array; undefined inside
\* an array is written null.
StringifyValue(v) ==
    IF "num" \in DOMAIN v THEN ToString(v.num)
    ELSE IF "str" \in DOMAIN v THEN Quote(v.str)
    ELSE IF "bool" \in DOMAIN v THEN (IF v.bool THEN "true" ELSE "false")
    ELSE IF "arr" \in DOMAIN v THEN "[" \o JoinElements(v.arr) \o "]"
    ELSE IF "obj" \in DOMAIN v THEN Stringify(v.obj)
    ELSE "null"

JoinMembers(ms) ==
    IF ms = <<>> THEN ""
    ELSE LET one == Quote(Head(ms)[1]) \o ":" \o StringifyValue(Head(ms)[2])
         IN  IF Tail(ms) = <<>> THEN one ELSE one \o "," \o JoinMembers(Tail(ms))

JoinElements(vs) ==
    IF vs = <<>> THEN ""
    ELSE IF Tail(vs) = <<>> THEN StringifyValue(Head(vs))
    ELSE StringifyValue(Head(vs)) \o "," \o JoinElements(Tail(vs))

\* Mutant of JoinEmpty: the default separator of join is used.
RECURSIVE JoinEmpty_Comma(_)
JoinEmpty_Comma(strs) ==
    IF strs = <<>> THEN ""
    ELSE IF Tail(strs) = <<>> THEN Head(strs)
    ELSE Head(strs) \o "," \o JoinEmpty_Comma(Tail(strs))

\* Array.prototype.join("") over a sequence of strings.
RECURSIVE JoinEmpty(_)
JoinEmpty(strs) ==
    IF strs = <<>> THEN "" ELSE Head(strs) \o JoinEmpty(Tail(strs))

(***************************************************************************)
(* Request formatter: OllamaModel._formatRequest.                          *)
(***************************************************************************)
\* systemPrompt.map((b) => ("text" in b ? b.text : ""))
SystemBlockText(b) == IF "text" \in DOMAIN b THEN b.text ELSE ""

\* Mutant of SystemPromptTruthy: the test is systemPrompt !== undefined.
SystemPromptTruthy_Defined(options) == "systemPrompt" \in DOMAIN options

\* if (systemPrompt): undefined and "" are falsy, every array is truthy.
SystemPromptTruthy(options) ==
    /\ "systemPrompt" \in DOMAIN options
    /\ \/ options.systemPrompt.kind = "blocks"
       \/ options.systemPrompt.value # ""

\* The content of the synthetic system message.
SystemContent(systemPrompt) ==
    IF systemPrompt.kind = "string"
    THEN systemPrompt.value
    ELSE JoinEmpty([j \in 1..Len(systemPrompt.value) |->
                        SystemBlockText(systemPrompt.value[j])])

\* Lines 72-79: the messages pushed for the system prompt.
SystemMessages(options) ==
    IF SystemPromptTruthy(options)
    THEN << [role |-> "system", content |-> SystemContent(options.systemPrompt)] >>
    ELSE <<>>

\* "json" in result ? JSON.stringify(result.json) : result.text
ToolResultContent(result) ==
    IF "json" \in DOMAIN result THEN Stringify(result.json) ELSE result.text

\* Mutant of FormatBlock: a tool result keeps the role of its message.
FormatBlock_ToolResultKeepsRole(role, block) ==
    IF block.type = "textBlock"
    THEN << [role |-> role, content |-> block.text] >>
    ELSE IF block.type = "imageBlock" /\ block.source.type = "imageSourceBytes"
    THEN << [role |-> role, images |-> << block.source.bytes >>] >>
    ELSE IF block.type = "toolUseBlock"
    THEN << [role |-> role,
             tool_calls |-> << [function |-> [name |-> block.name,
                                              arguments |-> block.input]] >>] >>
    ELSE IF block.type = "toolResultBlock"
    THEN [j \in 1..Len(block.content) |->
            [role |-> role, content |-> ToolResultContent(block.content[j])]]
    ELSE <<>>

\* Lines 84-116: the wire messages pushed for one content block.
FormatBlock(role, block) ==
    IF block.type = "textBlock"
    THEN << [role |-> role, content |-> block.text] >>
    ELSE IF block.type = "imageBlock" /\ block.source.type = "imageSourceBytes"
    THEN << [role |-> role, images |-> << block.source.bytes >>] >>
    ELSE IF block.type = "toolUseBlock"
    THEN << [role |-> role,
             tool_calls |-> << [function |-> [name |-> block.name,
                                              arguments |-> block.input]] >>] >>
    ELSE IF block.type = "toolResultBlock"
    THEN [j \in 1..Len(block.content) |->
            [role |-> "tool", content |-> ToolResultContent(block.content[j])]]
    ELSE <<>>

RECURSIVE FormatBlocks(_, _)
FormatBlocks(role, blocks) ==
    IF blocks = <<>> THEN <<>>
    ELSE FormatBlock(role, Head(blocks)) \o FormatBlocks(role, Tail(blocks))

\* Lines 82-118: the conversation, flattened in order.
RECURSIVE FormatMessages(_)
FormatMessages(messages) ==
    IF messages = <<>> THEN <<>>
    ELSE FormatBlocks(Head(messages).role, Head(messages).content)
            \o FormatMessages(Tail(messages))

\* Lines 124-130: the sampling options, the raw options bag merged last.
FormatOptions(cfg) ==
    Spread(Spread(Spread(Spread(Field("temperature", cfg, "temperature"),
                                Field("num_predict", cfg, "maxTokens")),
                         Field("top_p", cfg, "topP")),
                  Field("stop", cfg, "stopSequences")),
           IF "options" \in DOMAIN cfg THEN cfg.options ELSE <<>>)

\* Lines 132-139: the tool declarations.
FormatTools(options) ==
    IF "toolSpecs" \in DOMAIN options
    THEN [x \in {"tools"} |->
            [j \in 1..Len(options.toolSpecs) |->
                [type |-> "function",
                 function |-> [name |-> options.toolSpecs[j].name,
                               description |-> options.toolSpecs[j].description,
                               parameters |-> options.toolSpecs[j].inputSchema]]]]
    ELSE <<>>

\* Mutant of formatRequest: the raw options bag is spread over the request
\* itself instead of over its options field.
formatRequest_OptionsBagOnTop(messages, options, cfg) ==
    LET formattedMessages == SystemMessages(options) \o FormatMessages(messages)
        base == [model |-> cfg.modelId,
                 messages |-> formattedMessages,
                 stream |-> TRUE,
                 options |-> FormatOptions(cfg)]
    IN  Spread(Spread(Spread(Spread(base, Field("keep_alive", cfg, "keepAlive")),
                             FormatTools(options)),
                      IF "options" \in DOMAIN cfg THEN cfg.options ELSE <<>>),
               IF "params" \in DOMAIN cfg THEN cfg.params ELSE <<>>)

\* Mutant of formatRequest: the params bag is spread first, so the computed
\* fields win over it.
formatRequest_ParamsFirst(messages, options, cfg) ==
    LET formattedMessages == SystemMessages(options) \o FormatMessages(messages)
        base == [model |-> cfg.modelId,
                 messages |-> formattedMessages,
                 stream |-> TRUE,
                 options |-> FormatOptions(cfg)]
    IN  Spread(IF "params" \in DOMAIN cfg THEN cfg.params ELSE <<>>,
               Spread(Spread(base, Field("keep_alive", cfg, "keepAlive")),
                      FormatTools(options)))

\* Lines 68-142: _formatRequest(messages, options) under configuration cfg.
formatRequest(messages, options, cfg) ==
    LET formattedMessages == SystemMessages(options) \o FormatMessages(messages)
        base == [model |-> cfg.modelId,
                 messages |-> formattedMessages,
                 stream |-> TRUE,
                 options |-> FormatOptions(cfg)]
    IN  Spread(Spread(Spread(base, Field("keep_alive", cfg, "keepAlive")),
                      FormatTools(options)),
               IF "params" \in DOMAIN cfg THEN cfg.params ELSE <<>>)

(***************************************************************************)
(* Data the stream translator is exercised with.                           *)
(***************************************************************************)
Invs == {1, 2}          \* identities of the invocations of stream()

NoValue == <<>>         \* undefined
Some(v) == <<v>>

ToolCallA ==
    [function |-> [name |-> "letter_counter",
                   arguments |-> << <<"word", [str |-> "strawberry"]>>,
                                    <<"letter", [str |-> "r"]>> >>]]
ToolCallB ==
    [function |-> [name |-> "clock",
                   arguments |-> << <<"zone", [num |-> 2]>>,
                                    <<"7", [str |-> "say \"hi\"\n"]>> >>]]

\* One chunk of the chat stream: message.content, message.tool_calls, done,
\* prompt_eval_count, eval_count.
Chunk(content, toolCalls, done, promptCount, evalCount) ==
    [content |-> content, tool_calls |-> toolCalls, done |-> done,
     prompt_eval_count |-> promptCount, eval_count |-> evalCount]

CountPairs ==
    { <<NoValue, NoValue>>, <<Some(10), Some(5)>>,
      <<NoValue, Some(5)>>, <<Some(10), NoValue>> }

\* The chunks the transport may deliver.
Chunks ==
    \* text only, with and without the done flag
    { Chunk(Some(t), NoValue, d, NoValue, NoValue) : t \in {"", "Hi"}, d \in BOOLEAN }
    \* neither text nor tool calls: the last chunk with every shape of token
    \* counts, a chunk that is not the last with both counts
    \cup { Chunk(NoValue, NoValue, TRUE, c[1], c[2]) : c \in CountPairs }
    \cup { Chunk(NoValue, NoValue, FALSE, Some(10), Some(5)) }
    \* tool calls: an empty list, one call, two calls, one call with text
    \cup { Chunk(NoValue, Some(l), d, NoValue, NoValue) :
             l \in { <<>>, <<ToolCallA>>, <<ToolCallB, ToolCallA>> }, d \in BOOLEAN }
    \cup { Chunk(Some("Hi"), Some(<<ToolCallA>>), d, NoValue, NoValue) : d \in BOOLEAN }
    \cup { Chunk(NoValue, Some(<<ToolCallB>>), TRUE, Some(10), Some(5)) }

\* Values of Math.random().toString(36).substring(2, 9).
RandomSuffixes == {"k3x9q1a", "z0m4p7c"}

\* Errors the transport may raise.
Errors == {"ECONNREFUSED", "ECONNRESET"}

LetterCounterSpec ==
    [name |-> "letter_counter", description |-> "Count a letter",
     inputSchema |-> "schema"]

UserText(t) == [role |-> "user", content |-> << [type |-> "textBlock", text |-> t] >>]

\* The (messages, options) pairs stream() is called with: the agent's call.
CallInputs ==
    { [messages |-> << UserText("How many Rs?") >>,
       options |-> [systemPrompt |-> [kind |-> "string", value |-> "Be brief."],
                    toolSpecs |-> << LetterCounterSpec >>]] }

\* new OllamaModel({ modelId: "llama3.2" }), as the agent constructs it.
AgentConfig == [modelId |-> "llama3.2"]

(***************************************************************************)
(* The events stream() yields.                                             *)
(***************************************************************************)
\* Mutant of MessageStart: the role of the message is wrong.
MessageStart_RoleUser == [type |-> "modelMessageStartEvent", role |-> "user"]

MessageStart == [type |-> "modelMessageStartEvent", role |-> "assistant"]

TextDelta(chunk) ==
    [type |-> "modelContentBlockDeltaEvent",
     delta |-> [type |-> "textDelta", text |-> chunk.content[1]]]

ToolUseStart(tc, suffix) ==
    [type |-> "modelContentBlockStartEvent",
     start |-> [type |-> "toolUseStart",
                toolUseId |-> "call_" \o suffix,
                name |-> tc.function.name]]

ToolUseInputDelta(tc) ==
    [type |-> "modelContentBlockDeltaEvent",
     delta |-> [type |-> "toolUseInputDelta",
                input |-> Stringify(tc.function.arguments)]]

BlockStop == [type |-> "modelContentBlockStopEvent"]

\* x || 0 on an optional count
OrZero(opt) == IF opt = NoValue THEN 0 ELSE opt[1]

\* Mutant of Metadata: the total leaves the completion count out.
Metadata_TotalOmitsOutput(chunk) ==
    [type |-> "modelMetadataEvent",
     usage |-> [inputTokens |-> chunk.prompt_eval_count[1],
                outputTokens |-> IF chunk.eval_count = <<>> THEN 0 ELSE chunk.eval_count[1],
                totalTokens |-> chunk.prompt_eval_count[1]]]

Metadata(chunk) ==
    [type |-> "modelMetadataEvent",
     usage |-> [inputTokens |-> chunk.prompt_eval_count[1],
                outputTokens |-> OrZero(chunk.eval_count),
                totalTokens |-> OrZero(chunk.prompt_eval_count)
                                  + OrZero(chunk.eval_count)]]

MessageStop(flag) ==
    [type |-> "modelMessageStopEvent",
     stopReason |-> IF flag THEN "toolUse" ELSE "endTurn"]

\* Mutant of HasText: the test is for a defined content, so the empty
\* string passes it.
HasText_Defined(chunk) == chunk.content # NoValue

\* if (chunk.message?.content): a non-empty string
HasText(chunk) == chunk.content # NoValue /\ chunk.content[1] # ""

\* if (chunk.message?.tool_calls): any array, also the empty one
HasToolCalls(chunk) == chunk.tool_calls # NoValue

\* if (chunk.prompt_eval_count !== undefined)
HasUsage(chunk) == chunk.prompt_eval_count # NoValue

(***************************************************************************)
(* The body of the for await loop (lines 159-217) as a function: the       *)
(* events one chunk is translated to, given the value of toolRequested     *)
(* when the chunk arrives.  Tool-use ids are random; here the random       *)
(* suffix is left empty.                                                   *)
(***************************************************************************)
RECURSIVE ToolCallEvents(_)
ToolCallEvents(calls) ==
    IF calls = <<>> THEN <<>>
    ELSE << ToolUseStart(Head(calls), ""), ToolUseInputDelta(Head(calls)), BlockStop >>
            \o ToolCallEvents(Tail(calls))

\* toolRequested after the chunk has been translated.
FlagAfter(chunk, flag) ==
    flag \/ (HasToolCalls(chunk) /\ chunk.tool_calls[1] # <<>>)

ChunkEvents(chunk, flag) ==
    (IF HasText(chunk) THEN << TextDelta(chunk) >> ELSE <<>>)
    \o (IF HasToolCalls(chunk) THEN ToolCallEvents(chunk.tool_calls[1]) ELSE <<>>)
    \o (IF chunk.done /\ HasUsage(chunk) THEN << Metadata(chunk) >> ELSE <<>>)
    \o (IF chunk.done THEN << MessageStop(FlagAfter(chunk, flag)) >> ELSE <<>>)

RECURSIVE StreamEvents(_, _)
StreamEvents(cs, flag) ==
    IF cs = <<>> THEN <<>>
    ELSE ChunkEvents(Head(cs), flag) \o StreamEvents(Tail(cs), FlagAfter(Head(cs), flag))

\* An event with the random part of its tool-use id removed.
EraseId(e) ==
    IF e.type = "modelContentBlockStartEvent"
    THEN [e EXCEPT !.start.toolUseId = "call_"]
    ELSE e

EraseIds(evs) == [k \in 1..Len(evs) |-> EraseId(evs[k])]

(***************************************************************************)
(* The generator stream(), one action per step of its body.  The body runs *)
(* only while a next() of the caller is being served (pending); a yield    *)
(* hands one event to the caller and suspends the body until the next      *)
(* pull.                                                                   *)
(*   pc: "idle"      stream() has not been called                          *)
(*       "created"   the generator object exists, its body has not begun   *)
(*       "started"   suspended at the yield of line 153                    *)
(*       "chat"      client.chat has been called, its answer is awaited    *)
(*       "loop"      at the head of for await, about to ask for a chunk    *)
(*       "text"      at line 161, "tools" at 168/169, "toolDelta" at 183,  *)
(*       "toolStop"  at 192, "meta" at 199, "stop" at 212                  *)
(*       "catch"     in the catch block, line 219                          *)
(*       "done"      the body returned, "failed" the body threw            *)
(***************************************************************************)
Cur(i) == chunks[i][Len(chunks[i])]

\* yield ev
Yield(i, ev) ==
    /\ events' = [events EXCEPT ![i] = Append(@, ev)]
    /\ origin' = [origin EXCEPT ![i] = Append(@, Len(chunks[i]))]
    /\ pending' = [pending EXCEPT ![i] = FALSE]

Goto(i, label) == pc' = [pc EXCEPT ![i] = label]

\* The caller calls stream(messages, options): an async generator object is
\* created and its parameters are bound; no statement of the body runs.
Call(i) ==
    /\ pc[i] = "idle"
    /\ \E a \in CallInputs : args' = [args EXCEPT ![i] = Some(a)]
    /\ seen' = [seen EXCEPT ![i].call = Len(heap)]
    /\ Goto(i, "created")
    /\ UNCHANGED <<config, pending, pulls, request, clientHost, chatCalls,
                   chatAtPull, chunks, tcIdx, toolRequested, events, origin, raised,
                   thrown, errorLog, fmtInput, fmtOutput, heap, updates, got>>

\* The caller calls next() on the generator and awaits the result.
Pull(i) ==
    /\ pc[i] \notin {"idle", "done", "failed"}
    /\ ~pending[i]
    /\ pending' = [pending EXCEPT ![i] = TRUE]
    /\ pulls' = [pulls EXCEPT ![i] = @ + 1]
    /\ UNCHANGED <<config, pc, args, request, clientHost, chatCalls, chatAtPull,
                   chunks, tcIdx, toolRequested, events, origin, raised, thrown,
                   errorLog, fmtInput, fmtOutput, heap, updates, got, seen>>

\* Lines 148-153: format the request, construct the client, yield message start.
Start(i) ==
    /\ pc[i] = "created" /\ pending[i]
    /\ request' = [request EXCEPT ![i] =
                      Some(formatRequest(args[i][1].messages, args[i][1].options, config))]
    /\ clientHost' = [clientHost EXCEPT ![i] = Some(Field("host", config, "host"))]
    /\ seen' = [seen EXCEPT ![i].read = Len(heap)]
    /\ Yield(i, MessageStart)
    /\ Goto(i, "started")
    /\ UNCHANGED <<config, pulls, args, chatCalls, chatAtPull, chunks, tcIdx,
                   toolRequested, raised, thrown, errorLog, fmtInput, fmtOutput,
                   heap, updates, got>>

\* The bookkeeping of one call of client.chat.
IssueChat(i) ==
    /\ chatCalls' = [chatCalls EXCEPT ![i] = @ + 1]
    /\ chatAtPull' = [chatAtPull EXCEPT ![i] = Some(pulls[i])]

\* Line 156: the resumed body calls client.chat(request) and waits at the
\* await for the answer.
CallChat(i) ==
    /\ pc[i] = "started" /\ pending[i]
    /\ IssueChat(i)
    /\ Goto(i, "chat")
    /\ UNCHANGED <<config, pending, pulls, args, request, clientHost, chunks,
                   tcIdx, toolRequested, events, origin, raised, thrown, errorLog,
                   fmtInput, fmtOutput, heap, updates, got, seen>>

\* Mutant of OpenStream: the client is constructed when the chat is
\* answered, from the configuration current at that moment.
OpenStream_LateClient(i) ==
    /\ pc[i] = "chat" /\ pending[i]
    /\ clientHost' = [clientHost EXCEPT ![i] = Some(Field("host", config, "host"))]
    /\ toolRequested' = [toolRequested EXCEPT ![i] = FALSE]
    /\ Goto(i, "loop")
    /\ UNCHANGED <<config, pending, pulls, args, request, chatCalls, chatAtPull,
                   chunks, tcIdx, events, origin, raised, thrown, errorLog,
                   fmtInput, fmtOutput, heap, updates, got, seen>>

\* Lines 156-157: client.chat resolves with the response stream; the body
\* resumes and declares toolRequested.
OpenStream(i) ==
    /\ pc[i] = "chat" /\ pending[i]
    /\ toolRequested' = [toolRequested EXCEPT ![i] = FALSE]
    /\ Goto(i, "loop")
    /\ UNCHANGED <<config, pending, pulls, args, request, clientHost, chatCalls,
                   chatAtPull, chunks, tcIdx, events, origin, raised, thrown,
                   errorLog, fmtInput, fmtOutput, heap, updates, got, seen>>

\* Mutant of OpenFails: the rejected call is issued again instead of failing.
OpenFails_Retry(i) ==
    /\ pc[i] = "chat" /\ pending[i]
    /\ IssueChat(i)
    /\ UNCHANGED <<config, pc, pending, pulls, args, request, clientHost, chunks,
                   tcIdx, toolRequested, events, origin, raised, thrown, errorLog,
                   fmtInput, fmtOutput, heap, updates, got, seen>>

\* Line 156: client.chat rejects; the await throws into the catch block.
OpenFails(i) ==
    /\ pc[i] = "chat" /\ pending[i]
    /\ \E e \in Errors : raised' = [raised EXCEPT ![i] = Some(e)]
    /\ Goto(i, "catch")
    /\ UNCHANGED <<config, pending, pulls, args, request, clientHost, chatCalls,
                   chatAtPull, chunks, tcIdx, toolRequested, events, origin, thrown,
                   errorLog, fmtInput, fmtOutput, heap, updates, got, seen>>

\* Mutant of NextChunk: the flag is declared inside the loop, so every chunk
\* starts with it cleared.
NextChunk_ResetsFlag(i) ==
    /\ pc[i] = "loop" /\ pending[i]
    /\ Len(chunks[i]) < MaxChunks
    /\ \E c \in Chunks : chunks' = [chunks EXCEPT ![i] = Append(@, c)]
    /\ toolRequested' = [toolRequested EXCEPT ![i] = FALSE]
    /\ Goto(i, "text")
    /\ UNCHANGED <<config, pending, pulls, args, request, clientHost, chatCalls,
                   chatAtPull, tcIdx, events, origin, raised, thrown,
                   errorLog, fmtInput, fmtOutput, heap, updates, got, seen>>

\* Line 159: the transport delivers the next chunk, one of universe.
NextChunkFrom(i, universe) ==
    /\ pc[i] = "loop" /\ pending[i]
    /\ Len(chunks[i]) < MaxChunks
    /\ \E c \in universe : chunks' = [chunks EXCEPT ![i] = Append(@, c)]
    /\ Goto(i, "text")
    /\ UNCHANGED <<config, pending, pulls, args, request, clientHost, chatCalls,
                   chatAtPull, tcIdx, toolRequested, events, origin, raised, thrown,
                   errorLog, fmtInput, fmtOutput, heap, updates, got, seen>>

\* Line 159: the transport delivers the next chunk.
NextChunk(i) == NextChunkFrom(i, Chunks)

\* Mutant of StreamEnds: the end of the stream is reported to the caller
\* with a message stop.
StreamEnds_EmitsStop(i) ==
    /\ pc[i] = "loop" /\ pending[i]
    /\ Yield(i, MessageStop(toolRequested[i]))
    /\ Goto(i, "done")
    /\ UNCHANGED <<config, pulls, args, request, clientHost, chatCalls,
                   chatAtPull, chunks, tcIdx, toolRequested, raised,
                   thrown, errorLog, fmtInput, fmtOutput, heap, updates, got, seen>>

\* Line 159: the transport signals the end of the stream; the body returns.
StreamEnds(i) ==
    /\ pc[i] = "loop" /\ pending[i]
    /\ Goto(i, "done")
    /\ pending' = [pending EXCEPT ![i] = FALSE]
    /\ UNCHANGED <<config, pulls, args, request, clientHost, chatCalls,
                   chatAtPull, chunks, tcIdx, toolRequested, events, origin, raised,
                   thrown, errorLog, fmtInput, fmtOutput, heap, updates, got, seen>>

\* Line 159: the transport raises while the next chunk is awaited.
ChunkFails(i) ==
    /\ pc[i] = "loop" /\ pending[i]
    /\ \E e \in Errors : raised' = [raised EXCEPT ![i] = Some(e)]
    /\ Goto(i, "catch")
    /\ UNCHANGED <<config, pending, pulls, args, request, clientHost, chatCalls,
                   chatAtPull, chunks, tcIdx, toolRequested, events, origin, thrown,
                   errorLog, fmtInput, fmtOutput, heap, updates, got, seen>>

\* Lines 161-166: the text of the chunk, when it has any.
EmitText(i) ==
    /\ pc[i] = "text" /\ pending[i]
    /\ HasText(Cur(i))
    /\ Yield(i, TextDelta(Cur(i)))
    /\ tcIdx' = [tcIdx EXCEPT ![i] = 1]
    /\ Goto(i, "tools")
    /\ UNCHANGED <<config, pulls, args, request, clientHost, chatCalls,
                   chatAtPull, chunks, toolRequested, raised, thrown, errorLog,
                   fmtInput, fmtOutput, heap, updates, got, seen>>

SkipText(i) ==
    /\ pc[i] = "text" /\ pending[i]
    /\ ~HasText(Cur(i))
    /\ tcIdx' = [tcIdx EXCEPT ![i] = 1]
    /\ Goto(i, "tools")
    /\ UNCHANGED <<config, pending, pulls, args, request, clientHost, chatCalls,
                   chatAtPull, chunks, toolRequested, events, origin, raised, thrown,
                   errorLog, fmtInput, fmtOutput, heap, updates, got, seen>>

\* The loop of line 169 has another tool call to translate.
MoreToolCalls(i) ==
    /\ HasToolCalls(Cur(i))
    /\ tcIdx[i] <= Len(Cur(i).tool_calls[1])

\* Mutant of EmitToolStart: toolRequested is a field of the adapter, shared
\* by its invocations.
EmitToolStart_SharedFlag(i) ==
    /\ pc[i] = "tools" /\ pending[i]
    /\ MoreToolCalls(i)
    /\ toolRequested' = [j \in Invs |-> TRUE]
    /\ \E r \in RandomSuffixes :
          Yield(i, ToolUseStart(Cur(i).tool_calls[1][tcIdx[i]], r))
    /\ Goto(i, "toolDelta")
    /\ UNCHANGED <<config, pulls, args, request, clientHost, chatCalls,
                   chatAtPull, chunks, tcIdx, raised, thrown, errorLog,
                   fmtInput, fmtOutput, heap, updates, got, seen>>

\* Lines 169-180: set the flag, yield the start of the tool-use block.
EmitToolStart(i) ==
    /\ pc[i] = "tools" /\ pending[i]
    /\ MoreToolCalls(i)
    /\ toolRequested' = [toolRequested EXCEPT ![i] = TRUE]
    /\ \E r \in RandomSuffixes :
          Yield(i, ToolUseStart(Cur(i).tool_calls[1][tcIdx[i]], r))
    /\ Goto(i, "toolDelta")
    /\ UNCHANGED <<config, pulls, args, request, clientHost, chatCalls,
                   chatAtPull, chunks, tcIdx, raised, thrown, errorLog,
                   fmtInput, fmtOutput, heap, updates, got, seen>>

\* Mutant of EmitToolDelta: the arguments are always those of the first call
\* of the chunk.
EmitToolDelta_FirstCall(i) ==
    /\ pc[i] = "toolDelta" /\ pending[i]
    /\ Yield(i, ToolUseInputDelta(Cur(i).tool_calls[1][1]))
    /\ Goto(i, "toolStop")
    /\ UNCHANGED <<config, pulls, args, request, clientHost, chatCalls,
                   chatAtPull, chunks, tcIdx, toolRequested, raised, thrown,
                   errorLog, fmtInput, fmtOutput, heap, updates, got, seen>>

\* Lines 183-189: yield the arguments of the tool call.
EmitToolDelta(i) ==
    /\ pc[i] = "toolDelta" /\ pending[i]
    /\ Yield(i, ToolUseInputDelta(Cur(i).tool_calls[1][tcIdx[i]]))
    /\ Goto(i, "toolStop")
    /\ UNCHANGED <<config, pulls, args, request, clientHost, chatCalls,
                   chatAtPull, chunks, tcIdx, toolRequested, raised, thrown,
                   errorLog, fmtInput, fmtOutput, heap, updates, got, seen>>

\* Lines 192-195: yield the stop of the block, move to the next tool call.
EmitToolStop(i) ==
    /\ pc[i] = "toolStop" /\ pending[i]
    /\ Yield(i, BlockStop)
    /\ tcIdx' = [tcIdx EXCEPT ![i] = @ + 1]
    /\ Goto(i, "tools")
    /\ UNCHANGED <<config, pulls, args, request, clientHost, chatCalls,
                   chatAtPull, chunks, toolRequested, raised, thrown, errorLog,
                   fmtInput, fmtOutput, heap, updates, got, seen>>

\* Lines 168-169, 196: no tool call is left in this chunk.
ToolsDone(i) ==
    /\ pc[i] = "tools" /\ pending[i]
    /\ ~MoreToolCalls(i)
    /\ Goto(i, "meta")
    /\ UNCHANGED <<config, pending, pulls, args, request, clientHost, chatCalls,
                   chatAtPull, chunks, tcIdx, toolRequested, events, origin, raised,
                   thrown, errorLog, fmtInput, fmtOutput, heap, updates, got, seen>>

\* Lines 199-210: the chunk is done and carries a prompt count.
EmitMetadata(i) ==
    /\ pc[i] = "meta" /\ pending[i]
    /\ Cur(i).done /\ HasUsage(Cur(i))
    /\ Yield(i, Metadata(Cur(i)))
    /\ Goto(i, "stop")
    /\ UNCHANGED <<config, pulls, args, request, clientHost, chatCalls,
                   chatAtPull, chunks, tcIdx, toolRequested, raised, thrown,
                   errorLog, fmtInput, fmtOutput, heap, updates, got, seen>>

\* Lines 199-200: the chunk is done and carries no prompt count.
SkipMetadata(i) ==
    /\ pc[i] = "meta" /\ pending[i]
    /\ Cur(i).done /\ ~HasUsage(Cur(i))
    /\ Goto(i, "stop")
    /\ UNCHANGED <<config, pending, pulls, args, request, clientHost, chatCalls,
                   chatAtPull, chunks, tcIdx, toolRequested, events, origin, raised,
                   thrown, errorLog, fmtInput, fmtOutput, heap, updates, got, seen>>

\* Lines 199, 216-217: the chunk is not done; back to the head of the loop.
NotDone(i) ==
    /\ pc[i] = "meta" /\ pending[i]
    /\ ~Cur(i).done
    /\ Goto(i, "loop")
    /\ UNCHANGED <<config, pending, pulls, args, request, clientHost, chatCalls,
                   chatAtPull, chunks, tcIdx, toolRequested, events, origin, raised,
                   thrown, errorLog, fmtInput, fmtOutput, heap, updates, got, seen>>

\* Where the body continues after the yield of message stop (lines 216-217).
AfterStop == "loop"

\* Lines 212-215: yield message stop.
EmitStop(i) ==
    /\ pc[i] = "stop" /\ pending[i]
    /\ Yield(i, MessageStop(toolRequested[i]))
    /\ Goto(i, AfterStop)
    /\ UNCHANGED <<config, pulls, args, request, clientHost, chatCalls,
                   chatAtPull, chunks, tcIdx, toolRequested, raised, thrown,
                   errorLog, fmtInput, fmtOutput, heap, updates, got, seen>>

\* The argument list of logger.error in the catch block.
LogArgs(error) == << "Ollama Stream Error:", error >>

\* Mutant of Rethrown: the error is wrapped in a new one.
Rethrown_Wrapped(error) == "Stream failed: " \o error

\* The value the catch block throws.
Rethrown(error) == error

\* Lines 218-221: log the error and throw it again; the pending pull fails.
Catch(i) ==
    /\ pc[i] = "catch" /\ pending[i]
    /\ errorLog' = Append(errorLog, [inv |-> i, args |-> LogArgs(raised[i][1])])
    /\ thrown' = [thrown EXCEPT ![i] = Some(Rethrown(raised[i][1]))]
    /\ pending' = [pending EXCEPT ![i] = FALSE]
    /\ Goto(i, "failed")
    /\ UNCHANGED <<config, pulls, args, request, clientHost, chatCalls,
                   chatAtPull, chunks, tcIdx, toolRequested, events, origin, raised,
                   fmtInput, fmtOutput, heap, updates, got, seen>>

\* Every step of invocation i but the delivery of a chunk.
BodyStep(i) ==
    \/ Call(i)
    \/ Pull(i)
    \/ Start(i)
    \/ CallChat(i)
    \/ OpenStream(i)
    \/ OpenFails(i)
    \/ StreamEnds(i)
    \/ ChunkFails(i)
    \/ EmitText(i)
    \/ SkipText(i)
    \/ EmitToolStart(i)
    \/ EmitToolDelta(i)
    \/ EmitToolStop(i)
    \/ ToolsDone(i)
    \/ EmitMetadata(i)
    \/ SkipMetadata(i)
    \/ NotDone(i)
    \/ EmitStop(i)
    \/ Catch(i)

\* Every step of invocation i.
Step(i) == BodyStep(i) \/ NextChunk(i)

(***************************************************************************)
(* Specification of one invocation of stream() against every behaviour of  *)
(* the transport.                                                          *)
(***************************************************************************)
NoFormatInput == [messages |-> <<>>, options |-> <<>>]

StreamInit ==
    /\ pc = [i \in Invs |-> "idle"]
    /\ pending = [i \in Invs |-> FALSE]
    /\ pulls = [i \in Invs |-> 0]
    /\ args = [i \in Invs |-> NoValue]
    /\ request = [i \in Invs |-> NoValue]
    /\ clientHost = [i \in Invs |-> NoValue]
    /\ chatCalls = [i \in Invs |-> 0]
    /\ chatAtPull = [i \in Invs |-> NoValue]
    /\ chunks = [i \in Invs |-> <<>>]
    /\ tcIdx = [i \in Invs |-> 1]
    /\ toolRequested = [i \in Invs |-> FALSE]
    /\ events = [i \in Invs |-> <<>>]
    /\ origin = [i \in Invs |-> <<>>]
    /\ raised = [i \in Invs |-> NoValue]
    /\ thrown = [i \in Invs |-> NoValue]
    /\ errorLog = <<>>
    /\ seen = [i \in Invs |-> [call |-> 0, read |-> 0]]

\* Line 54: the constructor keeps the configuration it is given; no
\* updateConfig and no getConfig has been called.
Constructed(cfg) ==
    /\ config = cfg
    /\ heap = << cfg >>
    /\ updates = <<>>
    /\ got = NoValue

Init ==
    /\ Constructed(AgentConfig)
    /\ StreamInit
    /\ fmtInput = NoFormatInput
    /\ fmtOutput = NoValue

Next == Step(1)

Spec == Init /\ [][Next]_vars

(***************************************************************************)
(* The same invocation under fairness: the caller calls stream() and keeps *)
(* pulling; the runtime runs the body whenever a pull is being served; the *)
(* transport answers every request, with a chunk, with the end of the      *)
(* stream or with an error, and delivers at most MaxChunks chunks.         *)
(***************************************************************************)
CallerStep(i) == Call(i) \/ Pull(i)

TransportStep(i) ==
    \/ OpenStream(i)
    \/ OpenFails(i)
    \/ NextChunk(i)
    \/ StreamEnds(i)
    \/ ChunkFails(i)

Fairness ==
    /\ WF_vars(CallerStep(1))
    /\ WF_vars(TransportStep(1))
    /\ WF_vars(Step(1))

LiveSpec == Init /\ [][Next]_vars /\ Fairness

(***************************************************************************)
(* Configuration accessors (lines 52-63).                                  *)
(***************************************************************************)
\* this._config = { ...this._config, ...modelConfig }
updateConfig(cfg, modelConfig) == Spread(cfg, modelConfig)

\* Mutant of Allocate: the merged configuration is written into the object
\* that is current (Object.assign on this._config).
Allocate_InPlace(objects, obj) == [objects EXCEPT ![Len(objects)] = obj]

\* Line 58: the object literal creates a new object; the objects that exist
\* keep their contents.
Allocate(objects, obj) == Append(objects, obj)

\* JavaScript runs a handler to completion: another call on the adapter can
\* only run while every generator body is suspended, at a yield (no pull is
\* being served) or at the await of line 156 or of line 159.
Suspended == \A i \in Invs : pending[i] => pc[i] \in {"chat", "loop"}

\* return this._config
getConfig == config

(***************************************************************************)
(* Data the formatter is exercised with.                                   *)
(***************************************************************************)
SeqsUpTo(S, n) == UNION {[1..m -> S] : m \in 0..n}

TextBlock(t) == [type |-> "textBlock", text |-> t]
CachePointBlock == [type |-> "cachePointBlock", cacheType |-> "default"]

\* Blocks a system prompt may consist of.
SystemBlocks == {TextBlock("A"), TextBlock("b"), CachePointBlock}

SystemPrompts ==
    { [kind |-> "string", value |-> v] : v \in {"", "Be brief."} }
    \cup { [kind |-> "blocks", value |-> b] : b \in SeqsUpTo(SystemBlocks, MaxBlocks) }

\* The options the longest conversations are formatted with; <<>> is no
\* options at all.
CoreOptions ==
    { <<>>, [toolSpecs |-> << LetterCounterSpec >>],
      [systemPrompt |-> [kind |-> "string", value |-> "Be brief."],
       toolSpecs |-> << LetterCounterSpec >>] }

\* The StreamOptions the formatter is given.
OptionValues == CoreOptions \cup { [systemPrompt |-> sp] : sp \in SystemPrompts }

LetterArgs == << <<"word", [str |-> "strawberry"]>>, <<"letter", [str |-> "r"]>> >>

\* The messages a conversation is made of.
ConversationMessages ==
    { UserText("Hello"),
      [role |-> "assistant",
       content |-> << [type |-> "toolUseBlock", name |-> "letter_counter",
                       toolUseId |-> "call_1", input |-> LetterArgs] >>],
      [role |-> "user",
       content |-> << [type |-> "toolResultBlock", toolUseId |-> "call_1",
                       status |-> "success",
                       content |-> << [type |-> "jsonBlock",
                                       json |-> << <<"count", [num |-> 3]>>,
                                                   <<"ok", [bool |-> TRUE]>>,
                                                   <<"path", [str |-> "a\\b"]>>,
                                                   <<"items", [arr |-> << [num |-> 1],
                                                                          [null |-> TRUE] >>]>> >>],
                                      TextBlock("3 times") >>] >>],
      [role |-> "user",
       content |-> << [type |-> "imageBlock", format |-> "png",
                       source |-> [type |-> "imageSourceBytes", bytes |-> "iVBORw0K"]],
                      [type |-> "imageBlock", format |-> "png",
                       source |-> [type |-> "imageSourceUrl", url |-> "http://x/y.png"]],
                      [type |-> "reasoningBlock", text |-> "hmm"] >>],
      [role |-> "assistant",
       content |-> << TextBlock("Earlier results"),
                      [type |-> "toolResultBlock", toolUseId |-> "call_2",
                       status |-> "success", content |-> <<>>],
                      [type |-> "toolResultBlock", toolUseId |-> "call_3",
                       status |-> "error", content |-> << TextBlock("failed") >>],
                      TextBlock("end") >>] }

\* Every conversation with every option value, the longest conversations
\* with the core options.
FormatInputs ==
    { in \in [messages : SeqsUpTo(ConversationMessages, MaxMessages),
              options : OptionValues] :
        Len(in.messages) < MaxMessages \/ in.options \in CoreOptions }

FullConfig ==
    [modelId |-> "qwen3", host |-> "http://gpu:11434", temperature |-> 1,
     maxTokens |-> 256, topP |-> 1, stopSequences |-> << "END" >>,
     keepAlive |-> "5m",
     options |-> [temperature |-> 0, seed |-> 42, top_p |-> Undefined],
     params |-> [format |-> "json", stream |-> Undefined]]

\* The configurations OllamaModel is constructed with.
ConstructorConfigs == {AgentConfig, FullConfig}

\* The partial configurations updateConfig is called with.
ConfigPatches ==
    { [modelId |-> "mistral", temperature |-> Undefined,
       options |-> [num_ctx |-> 4096, stream |-> FALSE]],
      [modelId |-> "phi3", host |-> "http://other:11434", temperature |-> 0,
       params |-> [model |-> "other", messages |-> <<>>, stream |-> FALSE,
                   options |-> [seed |-> 7], keep_alive |-> "0", tools |-> <<>>]] }

(***************************************************************************)
(* Specification of the formatter: _formatRequest applied to every input   *)
(* under the configurations the accessors can produce.                     *)
(***************************************************************************)
\* model.updateConfig(patch)
UpdateConfig ==
    /\ Suspended
    /\ Len(updates) < MaxUpdates
    /\ \E patch \in ConfigPatches :
          /\ config' = updateConfig(config, patch)
          /\ heap' = Allocate(heap, updateConfig(config, patch))
          /\ updates' = Append(updates, patch)
    /\ UNCHANGED <<streamVars, fmtInput, fmtOutput, got, seen>>

\* model.getConfig()
GetConfig ==
    /\ Suspended
    /\ got' = Some([config |-> getConfig, after |-> Len(updates)])
    /\ UNCHANGED <<config, streamVars, fmtInput, fmtOutput, heap, updates, seen>>

\* _formatRequest(messages, options) under the current configuration; the
\* configuration it read is kept with the result.
Format ==
    /\ fmtOutput' = Some([config |-> config,
                          request |-> formatRequest(fmtInput.messages,
                                                    fmtInput.options, config)])
    /\ UNCHANGED <<config, streamVars, fmtInput, heap, updates, got, seen>>

FormatInit ==
    /\ \E cfg \in ConstructorConfigs : Constructed(cfg)
    /\ StreamInit
    /\ fmtInput \in FormatInputs
    /\ fmtOutput = NoValue

FormatNext == Format \/ UpdateConfig

FormatSpec == FormatInit /\ [][FormatNext]_vars

(***************************************************************************)
(* Specification of the adapter in use: one invocation of stream() is      *)
(* pulled while the caller also calls updateConfig and getConfig.  The     *)
(* transport answers with chunks of a small universe that has every shape  *)
(* the loop body distinguishes.                                            *)
(***************************************************************************)
FewChunks ==
    { Chunk(Some("Hi"), NoValue, FALSE, NoValue, NoValue),
      Chunk(NoValue, Some(<< ToolCallA >>), TRUE, Some(3), Some(5)),
      Chunk(Some(""), NoValue, TRUE, NoValue, Some(5)) }

\* Line 159: the transport delivers the next chunk.
NextFewChunk(i) == NextChunkFrom(i, FewChunks)

FewStep(i) == BodyStep(i) \/ NextFewChunk(i)

ConfigInit ==
    /\ \E cfg \in ConstructorConfigs : Constructed(cfg)
    /\ StreamInit
    /\ fmtInput = NoFormatInput
    /\ fmtOutput = NoValue

ConfigNext == FewStep(1) \/ UpdateConfig \/ GetConfig

ConfigSpec == ConfigInit /\ [][ConfigNext]_vars

(***************************************************************************)
(* Specification of one invocation of stream() that is pulled while the    *)
(* caller calls updateConfig at any point where the body is suspended.     *)
(***************************************************************************)
ReadNext == FewStep(1) \/ UpdateConfig

ReadSpec == ConfigInit /\ [][ReadNext]_vars

(***************************************************************************)
(* Specification of two invocations of stream() on one adapter, pulled in  *)
(* any interleaving.                                                       *)
(***************************************************************************)
\* A step of invocation i runs only while the body of every other
\* invocation is suspended, at a yield or at the await of line 156 or 159.
OthersSuspended(i) ==
    \A j \in Invs \ {i} : pending[j] => pc[j] \in {"chat", "loop"}

\* The chunks the transport delivers to the two invocations: tool calls in
\* a chunk that is not the last, and a last chunk with text and token counts.
PairChunks ==
    { Chunk(NoValue, Some(<< ToolCallA >>), FALSE, NoValue, NoValue),
      Chunk(Some("Hi"), NoValue, TRUE, Some(3), Some(5)) }

\* Line 159: the transport delivers the next chunk.
NextPairChunk(i) == NextChunkFrom(i, PairChunks)

PairStep(i) == OthersSuspended(i) /\ (BodyStep(i) \/ NextPairChunk(i))

PairNext == \E i \in Invs : PairStep(i)

PairSpec == Init /\ [][PairNext]_vars

(***************************************************************************)
(* Vocabulary of the properties.                                           *)
(***************************************************************************)
IsMessageStart(e) == e.type = "modelMessageStartEvent"
IsMessageStop(e) == e.type = "modelMessageStopEvent"
IsMetadata(e) == e.type = "modelMetadataEvent"
IsBlockStop(e) == e.type = "modelContentBlockStopEvent"
IsToolStart(e) ==
    e.type = "modelContentBlockStartEvent" /\ e.start.type = "toolUseStart"
IsToolInput(e) ==
    e.type = "modelContentBlockDeltaEvent" /\ e.delta.type = "toolUseInputDelta"
IsTextDelta(e) ==
    e.type = "modelContentBlockDeltaEvent" /\ e.delta.type = "textDelta"

Count(seq, Test(_)) == Len(SelectSeq(seq, Test))
Last(seq) == seq[Len(seq)]

\* The invocation has returned or thrown.
Finished(i) == pc[i] \in {"done", "failed"}

\* Chunk n of invocation i has been translated to its last event.
Translated(i, n) ==
    n < Len(chunks[i]) \/ pc[i] \in {"loop", "done", "catch", "failed"}

\* The events yielded while chunk n was the current chunk, in order.
EventsOf(i, n) ==
    LET ks == {k \in 1..Len(events[i]) : origin[i][k] = n}
    IN  IF ks = {} THEN <<>>
        ELSE SubSeq(events[i],
                    CHOOSE k \in ks : \A m \in ks : k <= m,
                    CHOOSE k \in ks : \A m \in ks : m <= k)

\* All tool calls of a chunk sequence, in chunk order and in list order.
RECURSIVE AllToolCalls(_)
AllToolCalls(cs) ==
    IF cs = <<>> THEN <<>>
    ELSE (IF HasToolCalls(Head(cs)) THEN Head(cs).tool_calls[1] ELSE <<>>)
            \o AllToolCalls(Tail(cs))

\* How many of the first k events start a tool-use block.
ToolStartsUpTo(evs, k) == Cardinality({m \in 1..k : IsToolStart(evs[m])})

(***************************************************************************)
(* C1: the first event handed to the caller is message start with role     *)
(* assistant, whatever the transport does, and message start occurs once:  *)
(* the first pull is answered by it, and an invocation that has returned   *)
(* or thrown has yielded it exactly once, as its first event.              *)
(***************************************************************************)
C1_MessageStartFirstOnce ==
    \A i \in Invs :
        /\ events[i] # <<>> =>
              events[i][1] = [type |-> "modelMessageStartEvent", role |-> "assistant"]
        /\ Count(events[i], IsMessageStart) <= 1
        /\ (pulls[i] >= 1 /\ ~pending[i]) => Count(events[i], IsMessageStart) = 1
        /\ (pulls[i] = 1 /\ ~pending[i]) => Len(events[i]) = 1 /\ thrown[i] = NoValue
        /\ Finished(i) => Count(events[i], IsMessageStart) = 1

\* The transport raised on open: message start was still the first event.
C1_Witness ==
    /\ pc[1] = "failed" /\ chunks[1] = <<>> /\ chatCalls[1] = 1
    /\ Len(events[1]) = 1 /\ IsMessageStart(events[1][1])

(***************************************************************************)
(* C2: when the transport completes without raising after it delivered a   *)
(* done chunk, exactly one message stop has been yielded and it is the     *)
(* last event (nothing is translated after the first done chunk).          *)
(***************************************************************************)
C2_OneStopTerminates ==
    \A i \in Invs :
        (pc[i] = "done" /\ \E n \in 1..Len(chunks[i]) : chunks[i][n].done) =>
            /\ Count(events[i], IsMessageStop) = 1
            /\ IsMessageStop(Last(events[i]))

(***************************************************************************)
(* C3: every start of a tool-use block is followed at once by one tool     *)
(* input delta carrying the serialized arguments of the same call and then *)
(* by one block stop; the j-th block is the j-th tool call in chunk order  *)
(* and list order; input deltas and block stops occur nowhere else.        *)
(***************************************************************************)
C3_ToolBlocksWellFormed ==
    \A i \in Invs :
        LET evs == events[i]
            calls == AllToolCalls(chunks[i])
        IN  /\ \A k \in 1..Len(evs) :
                  IsToolStart(evs[k]) =>
                      LET j == ToolStartsUpTo(evs, k)
                      IN  /\ j <= Len(calls)
                          /\ evs[k].start.name = calls[j].function.name
                          /\ k + 1 <= Len(evs) =>
                                /\ IsToolInput(evs[k + 1])
                                /\ evs[k + 1].delta.input =
                                      Stringify(calls[j].function.arguments)
                          /\ k + 2 <= Len(evs) => IsBlockStop(evs[k + 2])
                          /\ k + 2 > Len(evs) => pc[i] \in {"toolDelta", "toolStop"}
            /\ \A k \in 1..Len(evs) :
                  /\ IsToolInput(evs[k]) => k > 1 /\ IsToolStart(evs[k - 1])
                  /\ IsBlockStop(evs[k]) => k > 1 /\ IsToolInput(evs[k - 1])
            /\ (\A n \in 1..Len(chunks[i]) : Translated(i, n)) =>
                  Count(evs, IsToolStart) = Len(calls)

\* Both calls of a two-call chunk have been translated, in list order.
C3_Witness ==
    /\ pc[1] = "meta"
    /\ Len(chunks[1]) = 1
    /\ chunks[1][1].tool_calls = Some(<<ToolCallB, ToolCallA>>)
    /\ Count(events[1], IsToolStart) = 2
    /\ Len(events[1]) = 7

\* Every message stop names the reason the events before it call for.
StopReasonMatches ==
    \A i \in Invs : \A k \in 1..Len(events[i]) :
        IsMessageStop(events[i][k]) =>
            /\ events[i][k].stopReason \in {"toolUse", "endTurn"}
            /\ events[i][k].stopReason = "toolUse"
                  <=> \E m \in 1..(k - 1) : IsToolStart(events[i][m])

\* A step never clears toolRequested.
FlagSticky == \A i \in Invs : toolRequested[i] => toolRequested'[i]

(***************************************************************************)
(* C4: a message stop reports toolUse exactly when a tool-use block was    *)
(* started earlier in the same invocation, and endTurn otherwise; the flag *)
(* behind it is never cleared once it is set.                              *)
(***************************************************************************)
C4_StopReason == []StopReasonMatches /\ [][FlagSticky]_vars

\* A tool call in the first chunk decides the stop reason of the second.
C4_Witness ==
    /\ Len(chunks[1]) = 2
    /\ HasToolCalls(chunks[1][1]) /\ ~HasToolCalls(chunks[1][2])
    /\ events[1] # <<>> /\ IsMessageStop(Last(events[1]))
    /\ Last(events[1]).stopReason = "toolUse"

\* Each metadata event carries the counts of its own done chunk and is
\* followed at once by the message stop of that chunk.
MetadataPlacement ==
    \A i \in Invs : \A k \in 1..Len(events[i]) :
        IsMetadata(events[i][k]) =>
            /\ origin[i][k] >= 1
            /\ chunks[i][origin[i][k]].done
            /\ events[i][k].usage.inputTokens = chunks[i][origin[i][k]].prompt_eval_count[1]
            /\ events[i][k].usage.outputTokens = OrZero(chunks[i][origin[i][k]].eval_count)
            /\ k < Len(events[i]) =>
                  IsMessageStop(events[i][k + 1]) /\ origin[i][k + 1] = origin[i][k]
            /\ k = Len(events[i]) => pc[i] = "stop"

(***************************************************************************)
(* C5: a metadata event occurs at most once per invocation, the event      *)
(* after it is message stop, and its counts are those of the done chunk    *)
(* that produced that message stop.                                        *)
(***************************************************************************)
C5_MetadataOnce ==
    /\ \A i \in Invs : Count(events[i], IsMetadata) <= 1
    /\ MetadataPlacement

(***************************************************************************)
(* C6: for every done chunk that has been translated: with both token      *)
(* counts present its events end with one metadata event (input = prompt   *)
(* count, output = completion count, total = their sum) followed by        *)
(* message stop; with both counts absent it yields no metadata event and   *)
(* its events end with message stop.                                       *)
(***************************************************************************)
C6_MetadataPerDoneChunk ==
    \A i \in Invs : \A n \in 1..Len(chunks[i]) :
        (chunks[i][n].done /\ Translated(i, n)) =>
            LET c == chunks[i][n]
                evs == EventsOf(i, n)
            IN  /\ Len(evs) >= 1
                /\ IsMessageStop(Last(evs))
                /\ Count(evs, IsMessageStop) = 1
                /\ (c.prompt_eval_count # NoValue /\ c.eval_count # NoValue) =>
                      /\ Count(evs, IsMetadata) = 1
                      /\ Len(evs) >= 2
                      /\ evs[Len(evs) - 1] =
                            [type |-> "modelMetadataEvent",
                             usage |-> [inputTokens |-> c.prompt_eval_count[1],
                                        outputTokens |-> c.eval_count[1],
                                        totalTokens |-> c.prompt_eval_count[1]
                                                          + c.eval_count[1]]]
                /\ (c.prompt_eval_count = NoValue /\ c.eval_count = NoValue) =>
                      Count(evs, IsMetadata) = 0

\* A done chunk with counts 10 and 5 was translated: total 15, then stop.
C6_Witness ==
    /\ pc[1] = "loop" /\ Len(chunks[1]) = 1
    /\ chunks[1][1].done
    /\ chunks[1][1].prompt_eval_count = Some(10) /\ chunks[1][1].eval_count = Some(5)
    /\ Len(events[1]) >= 3
    /\ IsMetadata(events[1][Len(events[1]) - 1])
    /\ events[1][Len(events[1]) - 1].usage.totalTokens = 15

\* The calls of logger.error made by invocation i.
LogEntriesOf(i) == SelectSeq(errorLog, LAMBDA l : l.inv = i)

(***************************************************************************)
(* C7: when the transport raises, on open or on any chunk, logger.error is *)
(* called exactly once for the invocation, with the error; the pending     *)
(* pull fails with that same error; no event is yielded after the raise,   *)
(* and the events delivered are exactly the translation of the chunks      *)
(* received before it.                                                     *)
(***************************************************************************)
C7_TransportErrorPropagates ==
    \A i \in Invs :
        /\ raised[i] # NoValue =>
              /\ pc[i] \in {"catch", "failed"}
              /\ EraseIds(events[i]) = << MessageStart >> \o StreamEvents(chunks[i], FALSE)
        /\ pc[i] = "failed" =>
              /\ raised[i] # NoValue
              /\ thrown[i] = raised[i]
              /\ ~pending[i]
              /\ Len(LogEntriesOf(i)) = 1
              /\ LogEntriesOf(i)[1].args = << "Ollama Stream Error:", raised[i][1] >>
        /\ pc[i] # "failed" => thrown[i] = NoValue /\ Len(LogEntriesOf(i)) = 0

\* The transport raised after one text delta had been delivered.
C7_Witness ==
    /\ pc[1] = "failed"
    /\ Len(events[1]) = 2 /\ IsTextDelta(events[1][2])
    /\ thrown[1] = Some("ECONNRESET")
    /\ Len(errorLog) = 1

(***************************************************************************)
(* C8 as stated: client.chat is called exactly once and eagerly, before    *)
(* the first pull of the caller is served, so before message start is      *)
(* delivered.                                                              *)
(***************************************************************************)
C8_EagerChat ==
    \A i \in Invs :
        /\ chatCalls[i] <= 1
        /\ events[i] # <<>> => chatCalls[i] = 1

(***************************************************************************)
(* C8 amended: client.chat is called at most once and never again; it is   *)
(* called lazily, while the second pull of the caller is served, after     *)
(* message start has been delivered; an invocation pulled less than twice  *)
(* has made no call.                                                       *)
(***************************************************************************)
C8_LazyChatOnce ==
    \A i \in Invs :
        /\ chatCalls[i] <= 1
        /\ chatCalls[i] = 0 <=> pc[i] \in {"idle", "created", "started"}
        /\ chatCalls[i] = 1 =>
              /\ chatAtPull[i] = Some(2)
              /\ Len(events[i]) >= 1 /\ IsMessageStart(events[i][1])
        /\ pulls[i] < 2 => chatCalls[i] = 0

\* The stream ran to its end: the one call was issued by the second pull.
C8_Witness ==
    /\ pc[1] = "done" /\ Len(chunks[1]) = 2
    /\ chatCalls[1] = 1 /\ chatAtPull[1] = Some(2)

(***************************************************************************)
(* Vocabulary of the formatter properties.                                 *)
(***************************************************************************)
Formatted == fmtOutput # NoValue
FormattedRequest == fmtOutput[1].request

\* The raw params bag of the configuration the formatter read replaces the
\* messages field of the request.
ParamsReplaceMessages ==
    /\ "params" \in DOMAIN fmtOutput[1].config
    /\ "messages" \in DOMAIN fmtOutput[1].config.params

PromptKind(kind) ==
    /\ "systemPrompt" \in DOMAIN fmtInput.options
    /\ fmtInput.options.systemPrompt.kind = kind

SystemMessageOf(text) == [role |-> "system", content |-> text]

\* The text of the text-bearing blocks, one after the other.
RECURSIVE TextOfBlocks(_)
TextOfBlocks(blocks) ==
    IF blocks = <<>> THEN ""
    ELSE IF "text" \in DOMAIN Head(blocks)
    THEN Head(blocks).text \o TextOfBlocks(Tail(blocks))
    ELSE TextOfBlocks(Tail(blocks))

(***************************************************************************)
(* C9 as stated: for every system prompt given as a string, the empty      *)
(* string too, the message list of the request is one system message with  *)
(* that string followed by the translated conversation (the params bag not *)
(* replacing the list).                                                    *)
(***************************************************************************)
C9_StringPromptAlwaysFirst ==
    (Formatted /\ PromptKind("string") /\ ~ParamsReplaceMessages) =>
        FormattedRequest.messages =
            << SystemMessageOf(fmtInput.options.systemPrompt.value) >>
                \o FormatMessages(fmtInput.messages)

(***************************************************************************)
(* C9 amended: for every system prompt given as a non-empty string the     *)
(* message list is one system message with that string verbatim followed   *)
(* by the translated conversation; for the empty string no system message  *)
(* is added and the list is the translated conversation alone (the params  *)
(* bag not replacing the list).                                            *)
(***************************************************************************)
C9_NonEmptyStringPromptFirst ==
    (Formatted /\ PromptKind("string") /\ ~ParamsReplaceMessages) =>
        IF fmtInput.options.systemPrompt.value # ""
        THEN /\ FormattedRequest.messages[1] =
                    [role |-> "system", content |-> fmtInput.options.systemPrompt.value]
             /\ Tail(FormattedRequest.messages) = FormatMessages(fmtInput.messages)
        ELSE FormattedRequest.messages = FormatMessages(fmtInput.messages)

\* A two-message conversation was formatted with the prompt "Be brief.".
C9_Witness ==
    /\ Formatted /\ PromptKind("string") /\ ~ParamsReplaceMessages
    /\ fmtInput.options.systemPrompt.value = "Be brief."
    /\ Len(fmtInput.messages) = 2
    /\ Len(FormattedRequest.messages) >= 3
    /\ FormattedRequest.messages[1] = [role |-> "system", content |-> "Be brief."]

(***************************************************************************)
(* C10: for a system prompt given as a sequence of blocks, of any length   *)
(* and with or without text blocks, the formatter prepends exactly one     *)
(* system message, whose content is the text of the text-bearing blocks in *)
(* order without separators (the params bag not replacing the list).       *)
(***************************************************************************)
C10_BlockPromptConcatenated ==
    (Formatted /\ PromptKind("blocks") /\ ~ParamsReplaceMessages) =>
        /\ FormattedRequest.messages =
              << SystemMessageOf(TextOfBlocks(fmtInput.options.systemPrompt.value)) >>
                  \o FormatMessages(fmtInput.messages)
        /\ Count(FormattedRequest.messages, LAMBDA m : m.role = "system") = 1

\* Two text blocks were concatenated without a separator.
C10_Witness ==
    /\ Formatted /\ PromptKind("blocks") /\ ~ParamsReplaceMessages
    /\ fmtInput.options.systemPrompt.value = << TextBlock("A"), TextBlock("b") >>
    /\ FormattedRequest.messages[1].content = "Ab"

(***************************************************************************)
(* Vocabulary of the positions in the formatted message list.              *)
(***************************************************************************)
\* The blocks of a conversation in order, each with the role of its message.
RECURSIVE RoleBlocks(_)
RoleBlocks(messages) ==
    IF messages = <<>> THEN <<>>
    ELSE [j \in 1..Len(Head(messages).content) |->
            [role |-> Head(messages).role, block |-> Head(messages).content[j]]]
         \o RoleBlocks(Tail(messages))

\* The number of wire messages one block stands for.
WireCount(block) ==
    IF block.type = "toolResultBlock" THEN Len(block.content)
    ELSE IF block.type \in {"textBlock", "toolUseBlock"} THEN 1
    ELSE IF block.type = "imageBlock" /\ block.source.type = "imageSourceBytes" THEN 1
    ELSE 0

\* The number of wire messages the first n blocks stand for.
RECURSIVE WireCountUpTo(_, _)
WireCountUpTo(rbs, n) ==
    IF n = 0 THEN 0 ELSE WireCountUpTo(rbs, n - 1) + WireCount(rbs[n].block)

\* The number of result items in the tool-result blocks among the first n.
RECURSIVE ToolItemsUpTo(_, _)
ToolItemsUpTo(rbs, n) ==
    IF n = 0 THEN 0
    ELSE ToolItemsUpTo(rbs, n - 1)
            + (IF rbs[n].block.type = "toolResultBlock"
               THEN Len(rbs[n].block.content) ELSE 0)

(***************************************************************************)
(* C11: a tool-result block with N items, in a message of any role, stands *)
(* for exactly N consecutive messages of role tool at the position of the  *)
(* block in the message list, in item order; the content is the JSON text  *)
(* of a structured item and the text of a text item (the params bag not    *)
(* replacing the list).                                                    *)
(***************************************************************************)
C11_ToolResultsFlattened ==
    (Formatted /\ ~ParamsReplaceMessages) =>
        LET rbs == RoleBlocks(fmtInput.messages)
            out == FormattedRequest.messages
            lead == Len(out) - WireCountUpTo(rbs, Len(rbs))
        IN  /\ lead \in {0, 1}
            /\ \A j \in 1..Len(rbs) :
                  rbs[j].block.type = "toolResultBlock" =>
                      \A r \in 1..Len(rbs[j].block.content) :
                          LET item == rbs[j].block.content[r]
                              msg == out[lead + WireCountUpTo(rbs, j - 1) + r]
                          IN  /\ msg.role = "tool"
                              /\ DOMAIN msg = {"role", "content"}
                              /\ msg.content = IF "json" \in DOMAIN item
                                               THEN Stringify(item.json)
                                               ELSE item.text
            /\ Count(out, LAMBDA m : m.role = "tool") = ToolItemsUpTo(rbs, Len(rbs))

\* A structured and a text item of one block, sent by a user, became two
\* tool messages in item order, after the message of the first block.
C11_Witness ==
    /\ Formatted /\ ~ParamsReplaceMessages
    /\ Len(fmtInput.messages) = 2
    /\ fmtInput.messages[1] = UserText("Hello")
    /\ fmtInput.messages[2].role = "user"
    /\ fmtInput.messages[2].content[1].type = "toolResultBlock"
    /\ "systemPrompt" \notin DOMAIN fmtInput.options
    /\ FormattedRequest.messages =
          << [role |-> "user", content |-> "Hello"],
             [role |-> "tool",
              content |-> "{\"count\":3,\"ok\":true,\"path\":\"a\\\\b\",\"items\":[1,null]}"],
             [role |-> "tool", content |-> "3 times"] >>

(***************************************************************************)
(* Vocabulary of the request fields.                                       *)
(***************************************************************************)
\* The configuration the formatter read, and its raw params bag.
FormattedConfig == fmtOutput[1].config
FormattedParams ==
    IF "params" \in DOMAIN FormattedConfig THEN FormattedConfig.params ELSE <<>>

\* The fields _formatRequest computes.
ComputedFields == {"model", "messages", "stream", "options", "keep_alive", "tools"}

(***************************************************************************)
(* C12 as stated: the stream field of the request is true for every        *)
(* conversation, options value and configuration, whatever the raw bags    *)
(* hold.                                                                   *)
(***************************************************************************)
C12_StreamAlwaysTrue ==
    Formatted =>
        /\ "stream" \in DOMAIN FormattedRequest
        /\ FormattedRequest.stream = TRUE

(***************************************************************************)
(* C12 amended: the stream field of the request is true for every          *)
(* conversation, options value and configuration whose params bag has no   *)
(* stream key, whatever the raw options bag holds; when the params bag has *)
(* a stream key the field is the value of that key, undefined included.    *)
(***************************************************************************)
C12_StreamTrueUnlessParams ==
    Formatted =>
        IF "stream" \in DOMAIN FormattedParams
        THEN IF IsUndefined(FormattedParams.stream)
             THEN "stream" \notin DOMAIN FormattedRequest
             ELSE /\ "stream" \in DOMAIN FormattedRequest
                  /\ FormattedRequest.stream = FormattedParams.stream
        ELSE /\ "stream" \in DOMAIN FormattedRequest
             /\ FormattedRequest.stream = TRUE

\* The raw options bag holds stream: false, the params bag no stream key.
C12_Witness ==
    /\ Formatted
    /\ "stream" \notin DOMAIN FormattedParams
    /\ "options" \in DOMAIN FormattedConfig
    /\ "stream" \in DOMAIN FormattedConfig.options
    /\ FormattedConfig.options.stream = FALSE
    /\ FormattedRequest.stream = TRUE
    /\ FormattedRequest.options.stream = FALSE

(***************************************************************************)
(* C13: the params bag is merged last over the whole request: every key of *)
(* the bag is a top-level field of the request with the value of the bag,  *)
(* also model, messages, stream, options, keep_alive and tools; a field    *)
(* whose key is not in the bag has the value the formatter computed.       *)
(***************************************************************************)
C13_ParamsMergedLast ==
    Formatted =>
        LET cfg == FormattedConfig
            req == FormattedRequest
            params == FormattedParams
            opts == fmtInput.options
        IN  /\ \A k \in DOMAIN params :
                  IF IsUndefined(params[k])
                  THEN k \notin DOMAIN req
                  ELSE k \in DOMAIN req /\ req[k] = params[k]
            /\ DOMAIN req \subseteq ComputedFields \cup DOMAIN params
            /\ "model" \notin DOMAIN params => req.model = cfg.modelId
            /\ "messages" \notin DOMAIN params =>
                  req.messages = SystemMessages(opts) \o FormatMessages(fmtInput.messages)
            /\ "stream" \notin DOMAIN params => req.stream = TRUE
            /\ "options" \notin DOMAIN params => req.options = FormatOptions(cfg)
            /\ "keep_alive" \notin DOMAIN params =>
                  IF "keepAlive" \in DOMAIN cfg
                  THEN "keep_alive" \in DOMAIN req /\ req.keep_alive = cfg.keepAlive
                  ELSE "keep_alive" \notin DOMAIN req
            /\ "tools" \notin DOMAIN params =>
                  IF "toolSpecs" \in DOMAIN opts
                  THEN /\ "tools" \in DOMAIN req
                       /\ Len(req.tools) = Len(opts.toolSpecs)
                       /\ \A j \in 1..Len(req.tools) :
                             /\ req.tools[j].type = "function"
                             /\ req.tools[j].function.name = opts.toolSpecs[j].name
                  ELSE "tools" \notin DOMAIN req

\* The bag replaced model, messages and stream of a non-empty conversation
\* and left nothing of the computed values in those fields.
C13_Witness ==
    /\ Formatted
    /\ {"model", "messages", "stream", "options", "keep_alive", "tools"}
          \subseteq DOMAIN FormattedParams
    /\ fmtInput.messages # <<>>
    /\ "toolSpecs" \in DOMAIN fmtInput.options
    /\ FormattedRequest.model = "other"
    /\ FormattedRequest.messages = <<>>
    /\ FormattedRequest.stream = FALSE
    /\ FormattedRequest.options = [seed |-> 7]
    /\ FormattedRequest.keep_alive = "0"
    /\ FormattedRequest.tools = <<>>

(***************************************************************************)
(* Vocabulary of the configuration history.                                *)
(***************************************************************************)
\* The keys the first n calls of updateConfig supplied.
SuppliedKeys(n) == UNION {DOMAIN updates[j] : j \in 1..n}

\* The most recent of the first n calls that supplied key k.
LastSupplier(k, n) ==
    CHOOSE j \in 1..n :
        /\ k \in DOMAIN updates[j]
        /\ \A l \in (j + 1)..n : k \notin DOMAIN updates[l]

\* The configuration after the first n calls, key by key.
ExpectedConfig(n) ==
    LET supplied == SuppliedKeys(n)
        latest == [k \in DOMAIN heap[1] \cup supplied |->
                      IF k \in supplied THEN updates[LastSupplier(k, n)][k]
                                        ELSE heap[1][k]]
    IN  [k \in {j \in DOMAIN latest : ~IsUndefined(latest[j])} |-> latest[k]]

(***************************************************************************)
(* C14: after any sequence of updateConfig calls, getConfig returns the    *)
(* configuration in which each key holds the value of the most recent call *)
(* that supplied it and every key never supplied holds its constructor     *)
(* value (a supplied bag replaces the old bag wholesale, a key supplied     *)
(* with undefined becomes undefined); every call creates a new             *)
(* configuration object, and the object that was current before the call   *)
(* keeps its contents.                                                     *)
(***************************************************************************)
C14_UpdateConfigLastWins ==
    /\ Len(heap) = Len(updates) + 1
    /\ \A n \in 0..Len(updates) : heap[n + 1] = ExpectedConfig(n)
    /\ getConfig = heap[Len(updates) + 1]
    /\ got # NoValue => got[1].config = heap[got[1].after + 1]

\* Two calls supplied modelId, the first also an options bag; getConfig was
\* called after both, on an adapter constructed with a full configuration.
C14_Witness ==
    /\ got # NoValue
    /\ got[1].after = 2
    /\ heap[1] = FullConfig
    /\ updates[1].modelId = "mistral"
    /\ updates[2].modelId = "phi3"
    /\ got[1].config.modelId = "phi3"
    /\ got[1].config.options = [num_ctx |-> 4096, stream |-> FALSE]
    /\ got[1].config.keepAlive = "5m"
    /\ heap[2].modelId = "mistral"
    /\ heap[1].temperature = 1
    /\ IsUndefined(updates[1].temperature)
    /\ "temperature" \notin DOMAIN heap[2]
    /\ got[1].config.temperature = 0
    /\ heap[2].params = heap[1].params

(***************************************************************************)
(* C15 as stated: the tool-use identifiers generated within one response   *)
(* are pairwise distinct: no two tool-use start events of one invocation   *)
(* carry the same toolUseId.                                               *)
(***************************************************************************)
C15_ToolUseIdsDistinct ==
    \A i \in Invs : \A j, k \in 1..Len(events[i]) :
        (j < k /\ IsToolStart(events[i][j]) /\ IsToolStart(events[i][k])) =>
            events[i][j].start.toolUseId # events[i][k].start.toolUseId

(***************************************************************************)
(* C16 as stated: a done chunk that carries either token count yields one  *)
(* metadata event, a missing count reported as 0 and the total equal to    *)
(* the sum of the counts that are present; in particular a done chunk with *)
(* a completion count and no prompt count yields a metadata event.         *)
(***************************************************************************)
C16_MetadataOnEitherCount ==
    \A i \in Invs : \A n \in 1..Len(chunks[i]) :
        LET c == chunks[i][n]
            evs == EventsOf(i, n)
        IN  (/\ c.done
             /\ Translated(i, n)
             /\ (c.prompt_eval_count # NoValue \/ c.eval_count # NoValue)) =>
                /\ Count(evs, IsMetadata) = 1
                /\ \A k \in 1..Len(evs) :
                      IsMetadata(evs[k]) =>
                          evs[k].usage =
                              [inputTokens |-> OrZero(c.prompt_eval_count),
                               outputTokens |-> OrZero(c.eval_count),
                               totalTokens |-> OrZero(c.prompt_eval_count)
                                                 + OrZero(c.eval_count)]

(***************************************************************************)
(* Vocabulary of the order of events.                                      *)
(***************************************************************************)
\* The place of an event in the translation of one chunk: text, tool-call
\* blocks, metadata, message stop; 0 for an event no chunk is translated to.
Rank(e) ==
    IF IsTextDelta(e) THEN 1
    ELSE IF IsToolStart(e) \/ IsToolInput(e) \/ IsBlockStop(e) THEN 2
    ELSE IF IsMetadata(e) THEN 3
    ELSE IF IsMessageStop(e) THEN 4
    ELSE 0

\* The number of tool calls of a chunk.
ToolCallCount(c) == IF c.tool_calls = NoValue THEN 0 ELSE Len(c.tool_calls[1])

\* The chunk carries a text that is not empty.
NonEmptyText(c) == c.content # NoValue /\ c.content[1] # ""

(***************************************************************************)
(* C17: events are emitted chunk by chunk in arrival order: every event of *)
(* chunk n precedes every event of chunk n + 1, and only message start     *)
(* precedes the events of the first chunk.  Within one chunk the order is  *)
(* text delta, tool-call blocks, metadata, message stop; a translated      *)
(* chunk has one text delta when its text is non-empty and none otherwise, *)
(* and one block per tool call; a chunk with no text, no tool calls and no *)
(* done flag has no event.                                                 *)
(***************************************************************************)
C17_ChunkOrder ==
    \A i \in Invs :
        /\ \A k \in 1..(Len(events[i]) - 1) : origin[i][k] <= origin[i][k + 1]
        /\ \A k \in 1..Len(events[i]) : origin[i][k] = 0 <=> k = 1
        /\ \A n \in 1..Len(chunks[i]) :
              LET c == chunks[i][n]
                  evs == EventsOf(i, n)
              IN  /\ \A k \in 1..Len(evs) : Rank(evs[k]) >= 1
                  /\ \A k \in 1..(Len(evs) - 1) : Rank(evs[k]) <= Rank(evs[k + 1])
                  /\ Count(evs, IsTextDelta) <= 1
                  /\ \A k \in 1..Len(evs) :
                        IsTextDelta(evs[k]) =>
                            NonEmptyText(c) /\ evs[k].delta.text = c.content[1]
                  /\ Translated(i, n) =>
                        /\ Count(evs, IsTextDelta) = IF NonEmptyText(c) THEN 1 ELSE 0
                        /\ Count(evs, IsToolStart) = ToolCallCount(c)
                        /\ Count(evs, IsMessageStop) = IF c.done THEN 1 ELSE 0
                        /\ (~NonEmptyText(c) /\ ToolCallCount(c) = 0 /\ ~c.done) =>
                              evs = <<>>

\* Two chunks were translated: a text with a tool call, then a tool call
\* with token counts and the done flag; the transport then completed.
C17_Witness ==
    /\ pc[1] = "done"
    /\ chunks[1] = << Chunk(Some("Hi"), Some(<< ToolCallA >>), FALSE, NoValue, NoValue),
                      Chunk(NoValue, Some(<< ToolCallB >>), TRUE, Some(10), Some(5)) >>
    /\ origin[1] = << 0, 1, 1, 1, 1, 2, 2, 2, 2, 2 >>
    /\ IsTextDelta(events[1][2])
    /\ IsToolStart(events[1][3])
    /\ IsToolStart(events[1][6])
    /\ IsMetadata(events[1][9])
    /\ IsMessageStop(events[1][10])

(***************************************************************************)
(* Vocabulary of the configuration an invocation uses.                     *)
(***************************************************************************)
\* seq is an initial part of full.
IsPrefix(seq, full) ==
    Len(seq) <= Len(full) /\ \A k \in 1..Len(seq) : seq[k] = full[k]

\* What the caller of invocation i has seen is the translation of the
\* chunks delivered so far, whatever the configuration is.
EventsFollowChunks(i) ==
    IsPrefix(EraseIds(events[i]),
             << MessageStart >> \o StreamEvents(chunks[i], FALSE))

\* The wire request and the host of the client are those of one
\* configuration object, the one current when the body began.
ConfigReadOnce ==
    \A i \in Invs :
        /\ request[i] = NoValue =>
              /\ clientHost[i] = NoValue
              /\ seen[i].read = 0
              /\ pulls[i] = 0 \/ (pulls[i] = 1 /\ pending[i] /\ pc[i] = "created")
        /\ request[i] # NoValue =>
              LET used == heap[seen[i].read]
              IN  /\ seen[i].read \in 1..Len(heap)
                  /\ 1 <= seen[i].call /\ seen[i].call <= seen[i].read
                  /\ pulls[i] >= 1
                  /\ request[i][1] = formatRequest(args[i][1].messages,
                                                   args[i][1].options, used)
                  /\ clientHost[i] # NoValue
                  /\ clientHost[i][1] = Field("host", used, "host")
        /\ EventsFollowChunks(i)

\* The read happens in one step while the first pull is served and takes the
\* object current at that step; no updateConfig falls between the first pull
\* and the read; after the read the request and the host never change, and
\* an updateConfig leaves request and events alone.
ConfigReadStable ==
    \A i \in Invs :
        /\ (request[i] = NoValue /\ request'[i] # NoValue) =>
              /\ pulls[i] = 1 /\ pending[i]
              /\ seen'[i].read = Len(heap)
              /\ config = heap[Len(heap)]
              /\ clientHost'[i] # NoValue
              /\ heap' = heap /\ config' = config
        /\ (pulls[i] = 1 /\ pending[i] /\ request[i] = NoValue) =>
              heap' = heap /\ config' = config
        /\ request[i] # NoValue =>
              /\ request'[i] = request[i]
              /\ clientHost'[i] = clientHost[i]
              /\ seen'[i] = seen[i]
        /\ (heap' # heap \/ config' # config) =>
              /\ request' = request
              /\ clientHost' = clientHost
              /\ events' = events

(***************************************************************************)
(* C18: an invocation reads the configuration in one atomic step while the *)
(* caller's first pull is served: the request (model id, sampling options, *)
(* params bag) and the host of the transport come from one configuration   *)
(* version, under every interleaving with updateConfig.  That version is   *)
(* the one current at the first pull, so it includes an updateConfig made  *)
(* between the call of stream() and the first pull; an updateConfig made   *)
(* later changes neither the request nor the events of the invocation.     *)
(***************************************************************************)
C18_AtomicConfigRead == []ConfigReadOnce /\ [][ConfigReadStable]_vars

\* stream() was called on the constructor's configuration, the model id was
\* updated before the first pull and the host after it; the invocation ran
\* to its end with the updated model id and the old host.
C18_Witness ==
    /\ pc[1] = "done"
    /\ Len(events[1]) >= 2
    /\ heap[1] = FullConfig
    /\ seen[1] = [call |-> 1, read |-> 2]
    /\ Len(heap) = 3
    /\ updates[1].modelId = "mistral"
    /\ "host" \in DOMAIN updates[2]
    /\ request[1][1].model = "mistral"
    /\ request[1][1].options.num_ctx = 4096
    /\ request[1][1].format = "json"
    /\ clientHost[1][1] = [host |-> "http://gpu:11434"]
    /\ config.host = "http://other:11434"
    /\ config.modelId = "phi3"

(***************************************************************************)
(* C19: when two invocations on one adapter are pulled in any              *)
(* interleaving, the events of each are a function of its own chunks: they *)
(* are the events the invocation yields when it runs alone on these        *)
(* chunks, and a message stop reports tool use exactly when a tool call    *)
(* arrived in a chunk of its own invocation, whatever the other invocation *)
(* received.                                                               *)
(***************************************************************************)
C19_InvocationsIndependent ==
    \A i \in Invs :
        /\ LET own == << MessageStart >> \o StreamEvents(chunks[i], FALSE)
           IN  /\ IsPrefix(EraseIds(events[i]), own)
               /\ (pc[i] \in {"loop", "done"} /\ chatCalls[i] = 1) =>
                     EraseIds(events[i]) = own
        /\ \A k \in 1..Len(events[i]) :
              IsMessageStop(events[i][k]) =>
                  (events[i][k].stopReason = "toolUse"
                      <=> AllToolCalls(SubSeq(chunks[i], 1, origin[i][k])) # <<>>)

\* Invocation 1 is in the middle of a tool-call block, its flag set, while
\* invocation 2 has yielded the message stop of a chunk with no tool call.
C19_Witness ==
    /\ pc[1] = "toolDelta" /\ toolRequested[1]
    /\ pc[2] = "loop" /\ ~pending[2]
    /\ Len(chunks[2]) = 1
    /\ AllToolCalls(chunks[2]) = <<>>
    /\ Last(events[2]) = MessageStop(FALSE)
    /\ IsToolStart(Last(events[1]))

(***************************************************************************)
(* Vocabulary of termination.                                              *)
(***************************************************************************)
\* What the caller has seen is the translation of the delivered chunks, each
\* once and in arrival order; a finished invocation returned (nothing
\* thrown) or failed with the error of the transport; an invocation that
\* returned without a done chunk yielded no message stop and no metadata.
ChunksConsumedInOrder ==
    \A i \in Invs :
        /\ EventsFollowChunks(i)
        /\ \A k \in 1..(Len(origin[i]) - 1) : origin[i][k] <= origin[i][k + 1]
        /\ pc[i] = "done" =>
              /\ thrown[i] = NoValue /\ raised[i] = NoValue
              /\ EraseIds(events[i]) =
                    << MessageStart >> \o StreamEvents(chunks[i], FALSE)
              /\ (\A n \in 1..Len(chunks[i]) : ~chunks[i][n].done) =>
                    /\ Count(events[i], IsMessageStop) = 0
                    /\ Count(events[i], IsMetadata) = 0
        /\ pc[i] = "failed" => (thrown[i] # NoValue /\ thrown[i] = raised[i])

\* The transport is asked for a chunk only while a pull is being served, and
\* the chunks delivered before stay as they are.
ChunkOnlyOnPull ==
    \A i \in Invs :
        chunks'[i] # chunks[i] =>
            /\ pending[i]
            /\ pulls[i] >= 2
            /\ Len(chunks'[i]) = Len(chunks[i]) + 1
            /\ SubSeq(chunks'[i], 1, Len(chunks[i])) = chunks[i]

(***************************************************************************)
(* C20: when the transport delivers a finite chunk sequence, ending in     *)
(* completion or in an error, and the caller keeps pulling, the invocation *)
(* eventually finishes, by returning or by throwing; every delivered chunk *)
(* is translated once, in arrival order; a chunk is requested only while a *)
(* pull of the caller is being served; when the transport completes        *)
(* without a done chunk the sequence ends normally with no message stop    *)
(* and no metadata event.                                                  *)
(***************************************************************************)
C20_FiniteStreamTerminates ==
    /\ <>Finished(1)
    /\ []ChunksConsumedInOrder
    /\ [][ChunkOnlyOnPull]_vars

\* The transport delivered two text chunks without the done flag and then
\* completed: the invocation returned after message start and two deltas.
C20_Witness ==
    /\ pc[1] = "done"
    /\ Len(chunks[1]) = 2
    /\ \A n \in 1..2 : ~chunks[1][n].done /\ chunks[1][n].content = Some("Hi")
    /\ Len(events[1]) = 3
    /\ IsTextDelta(events[1][3])
    /\ thrown[1] = NoValue

====
